---- MODULE Spec2Model ----
(***************************************************************************)
(* A model of src/lore/lore_session.rs of patch-hub: the LoreSession       *)
(* engine (fetch loop, dedup fold, representative selection, pagination)   *)
(* and the mailbox splitter extract_patches.                               *)
(***************************************************************************)
EXTENDS Integers, Sequences, FiniteSets, TLC

\* ------------------------------------------------------------------ bounds

\* Entries in one feed page (a real page holds up to LORE_PAGE_SIZE).
MaxPageLen == 2
\* Pages fetched successfully over the life of one session.
MaxFetches == 3
\* Largest n passed to process_n_representative_patches.
MaxN == 2
\* Largest page_size / page_number passed to get_patch_feed_page.
MaxPageSize == 3
MaxPageNumber == 2
\* Messages in one mailbox file.
MaxMessages == 3
\* Lines in a mailbox file of any content.
MaxLines == 4
\* Characters in a patch text given to split_cover.
MaxTextLen == 7
\* Lines in a patch text given to generate_patch_reply_template.
MaxReplyLines == 4
\* Patches given to prepare_reply_patchset_with_reviewed_by, words in the
\* HTML of a patch, pieces in the baseline option string.
MaxPatches == 2
MaxHtmlLen == 4
MaxOptionsLen == 3
\* Requests of one fetch_available_lists call, entries on a directory page.
MaxListRequests == 3
MaxPageEntries == 2
\* write calls serde_json::to_writer makes for one snapshot.
MaxChunks == 2

\* --------------------------------------------------------------- constants

LORE_PAGE_SIZE == 200

\* Stands for usize::MAX, the value 0usize - 1 wraps to when overflow checks
\* are off; the largest integer the model checker represents.  All that is
\* used of it is that it exceeds every index the bounds produce.
USIZE_MAX == 2147483647

\* ------------------------------------------------------------ the patches

MessageIds == {"m0", "m1"}
NoReply == "none"
NumbersInSeries == {0, 1, 2}
Versions == {1, 2}

\* The thread the archive holds: m0 starts it (its In-Reply-To is absent) and
\* m1 is a reply to m0.
in_reply_to_of(message_id) == IF message_id = "m0" THEN NoReply ELSE "m0"

\* One entry of a feed page as the transport delivers it: the message id, the
\* reply-to link and the title tag "[PATCH vV N/M]".  The transport may
\* deliver the same message under any title.
FeedEntries ==
    {[message_id |-> message_id, in_reply_to |-> in_reply_to_of(message_id), title |-> title] :
        message_id \in MessageIds, title \in [number : NumbersInSeries, version : Versions]}

\* A feed page: up to MaxPageLen entries, in feed order.
PatchFeeds == UNION {[1..k -> FeedEntries] : k \in 0..MaxPageLen}

\* Patch::update_patch_metadata: the series position and the version are
\* read off the title.
update_patch_metadata(entry) ==
    [message_id |-> entry.message_id,
     in_reply_to |-> entry.in_reply_to,
     number_in_series |-> entry.title.number,
     version |-> entry.title.version]

\* ------------------------------------------------------------------ state

VARIABLES
    processed_patches_map,      \* HashMap<String, Patch>: a function on the known ids
    representative_patches_ids, \* Vec<String>
    min_index,                  \* the cursor
    pc,                         \* "idle" | "fetching" | "panicked"
    n,                          \* argument of the current / last process_n_representative_patches
    ret,                        \* what the last operation returned
    fetched,                    \* history: the offsets of the pages request_patch_feed returned
    last_request,               \* history: the last request_patch_feed call, [offset, outcome]
    \* extract_patches
    mbox,                       \* the lines of the file at mbox_path
    lines_read,                 \* how many of them the for loop has consumed
    current_patch,              \* String: the lines pushed, each with its newline
    is_reading_patch,
    is_last_line,
    patches,                    \* &mut Vec<String>
    extracted,                  \* extract_patches has returned
    messages,                   \* history: the messages the file was written from
    \* the free functions of one call: split_cover, generate_patch_reply_template,
    \* prepare_reply_patchset_with_reviewed_by
    input,                      \* the function called and its arguments
    output,                     \* what it returned
    \* fetch_available_lists
    available_lists,            \* Vec<MailingList>
    lists_min_index,            \* its local min_index
    lists_ret,                  \* "idle" | "fetching" | "Ok" | "Err" | "panicked"
    served,                     \* history: the directory pages the requests returned
    \* save_bookmarked_patchsets / save_available_lists / save_reviewed_patchsets
    directory,                  \* the names in the parent directory: name -> file
    files,                      \* the contents of the files
    savers,                     \* the running save calls
    reader                      \* a concurrent load: the file it opened, what it read

session == <<processed_patches_map, representative_patches_ids, min_index>>
history == <<fetched, last_request>>
splitter == <<mbox, lines_read, current_patch, is_reading_patch, is_last_line, patches,
              extracted, messages>>
engine == <<processed_patches_map, representative_patches_ids, min_index, pc, n, ret,
            fetched, last_request>>
functions == <<input, output>>
lists == <<available_lists, lists_min_index, lists_ret, served>>
disk == <<directory, files, savers, reader>>
utilities == <<functions, lists, disk>>
vars == <<engine, splitter, utilities>>

\* Return values.
NoPage == <<>>
NoArgs == <<>>
Returned(op, args, kind, val) == [op |-> op, args |-> args, kind |-> kind, val |-> val]
Pending == Returned("process_n_representative_patches", NoArgs, "Pending", NoPage)
Ok == Returned("process_n_representative_patches", NoArgs, "Ok", NoPage)
Err == Returned("process_n_representative_patches", NoArgs, "Err", NoPage)
Fresh == Returned("new", NoArgs, "Ok", NoPage)
PageNone == [kind |-> "None", val |-> NoPage]
PageSome(page) == [kind |-> "Some", val |-> page]
PagePanic == [kind |-> "Panic", val |-> NoPage]

\* ------------------------------------------------------- the dedup fold

contains_key(map, key) == key \in DOMAIN map

\* HashMap::insert: the new value replaces an old one.
insert(map, key, value) == (key :> value) @@ map

\* process_patches, from entry i of the feed on: [map, ids] after the loop.
RECURSIVE process_patches_from(_, _, _, _)
process_patches_from(map, ids, patch_feed, i) ==
    IF i > Len(patch_feed) THEN [map |-> map, ids |-> ids]
    ELSE LET patch == update_patch_metadata(patch_feed[i])
         IN  IF ~contains_key(map, patch.message_id)
             THEN process_patches_from(insert(map, patch.message_id, patch),
                                       Append(ids, patch.message_id), patch_feed, i + 1)
             ELSE process_patches_from(map, ids, patch_feed, i + 1)

\* process_patches without the contains_key test: every entry is inserted and
\* reported.
RECURSIVE process_patches_unchecked_from(_, _, _, _)
process_patches_unchecked_from(map, ids, patch_feed, i) ==
    IF i > Len(patch_feed) THEN [map |-> map, ids |-> ids]
    ELSE LET patch == update_patch_metadata(patch_feed[i])
         IN  process_patches_unchecked_from(insert(map, patch.message_id, patch),
                                            Append(ids, patch.message_id), patch_feed, i + 1)

process_patches_unchecked(map, patch_feed) ==
    process_patches_unchecked_from(map, <<>>, patch_feed, 1)

\* process_patches with the insert moved out of the contains_key test: a known
\* id is not reported again, but its patch is replaced.
RECURSIVE process_patches_refreshing_from(_, _, _, _)
process_patches_refreshing_from(map, ids, patch_feed, i) ==
    IF i > Len(patch_feed) THEN [map |-> map, ids |-> ids]
    ELSE LET patch == update_patch_metadata(patch_feed[i])
         IN  process_patches_refreshing_from(
                 insert(map, patch.message_id, patch),
                 IF contains_key(map, patch.message_id) THEN ids
                 ELSE Append(ids, patch.message_id),
                 patch_feed, i + 1)

process_patches_refreshing(map, patch_feed) ==
    process_patches_refreshing_from(map, <<>>, patch_feed, 1)

process_patches(map, patch_feed) == process_patches_from(map, <<>>, patch_feed, 1)

\* ------------------------------------------- representative selection

\* is_skipped with no `continue` taken.
is_skipped_never(map, patch) == FALSE

\* is_skipped without the comparison of the versions.
is_skipped_any_version(map, patch) ==
    \/ patch.number_in_series > 1
    \/ /\ patch.number_in_series = 1
       /\ patch.in_reply_to # NoReply
       /\ contains_key(map, patch.in_reply_to)
       /\ map[patch.in_reply_to].number_in_series = 0

\* The two `continue`s of update_representative_patches.
is_skipped(map, patch) ==
    \/ patch.number_in_series > 1
    \/ /\ patch.number_in_series = 1
       /\ patch.in_reply_to # NoReply
       /\ contains_key(map, patch.in_reply_to)
       /\ map[patch.in_reply_to].number_in_series = 0
       /\ patch.version = map[patch.in_reply_to].version

RECURSIVE update_representative_patches_from(_, _, _, _)
update_representative_patches_from(map, reps, ids, i) ==
    IF i > Len(ids) THEN reps
    ELSE LET patch == map[ids[i]]
         IN  IF is_skipped(map, patch)
             THEN update_representative_patches_from(map, reps, ids, i + 1)
             ELSE update_representative_patches_from(map, Append(reps, patch.message_id),
                                                     ids, i + 1)

update_representative_patches(map, reps, ids) ==
    update_representative_patches_from(map, reps, ids, 1)

\* One page through the dedup fold and the selection: the session's map and
\* representative list afterwards, and the ids process_patches returned.
fold(map, reps, patch_feed) ==
    LET processed == process_patches(map, patch_feed)
    IN  [map |-> processed.map,
         reps |-> update_representative_patches(processed.map, reps, processed.ids),
         ids |-> processed.ids]

\* ------------------------------------------------------------ pagination

\* a - b on usize with overflow checks off.
wrapping_sub(a, b) == IF a >= b THEN a - b ELSE USIZE_MAX - (b - a) + 1

\* The for loop of get_patch_feed_page over lower_end..upper_end (0-based).
RECURSIVE patch_feed_page_from(_, _, _, _, _)
patch_feed_page_from(map, reps, i, upper_end, page) ==
    IF i >= upper_end THEN PageSome(page)
    ELSE IF i >= Len(reps) THEN PagePanic              \* index out of bounds
    ELSE IF ~contains_key(map, reps[i + 1]) THEN PageNone \* the `?`
    ELSE patch_feed_page_from(map, reps, i + 1, upper_end, Append(page, map[reps[i + 1]]))

\* get_patch_feed_page; overflow_checks is the build's setting (on in a debug
\* build, off in a release build).
get_patch_feed_page(map, reps, page_size, page_number, overflow_checks) ==
    IF Len(reps) = 0 /\ overflow_checks THEN PagePanic  \* attempt to subtract with overflow
    ELSE LET representative_patches_ids_max_index == wrapping_sub(Len(reps), 1)
             lower_end == page_size * (page_number - 1)
             upper_end == page_size * page_number
         IN  IF representative_patches_ids_max_index <= lower_end THEN PageNone
             ELSE patch_feed_page_from(map, reps, lower_end,
                      IF representative_patches_ids_max_index < upper_end - 1
                      THEN representative_patches_ids_max_index + 1
                      ELSE upper_end,
                      <<>>)

\* ------------------------------------------------------------ the actions

\* No mailbox file is being split.
no_mbox ==
    /\ mbox = <<>>
    /\ lines_read = 0
    /\ current_patch = <<>>
    /\ is_reading_patch = FALSE
    /\ is_last_line = FALSE
    /\ patches = <<>>
    /\ extracted = TRUE
    /\ messages = <<>>

\* No free function is being called.
NotCalled == [op |-> "none"]
NotReturned == [kind |-> "pending"]
no_call ==
    /\ input = NotCalled
    /\ output = NotReturned

\* fetch_available_lists is not running.
no_lists ==
    /\ available_lists = <<>>
    /\ lists_min_index = 0
    /\ lists_ret = "idle"
    /\ served = <<>>

\* No snapshot is being saved or loaded.
no_disk ==
    /\ directory = <<>>
    /\ files = <<>>
    /\ savers = <<>>
    /\ reader = [fd |-> 0, offset |-> 0, buffer |-> <<>>, loaded |-> [kind |-> "none"]]

idle == no_call /\ no_lists /\ no_disk

\* LoreSession::new
new ==
    /\ processed_patches_map = <<>>
    /\ representative_patches_ids = <<>>
    /\ min_index = 0
    /\ pc = "idle"
    /\ n = 0
    /\ ret = Fresh
    /\ fetched = <<>>
    /\ last_request = [offset |-> 0, outcome |-> "none"]

Init == new /\ no_mbox /\ idle

\* The guard of the while loop with <= for <.
loop_continues_le(reps, count) == Len(reps) <= count

\* The guard of the while loop.
loop_continues(reps, count) == Len(reps) < count

\* The cursor after a page.
advance_cursor(index) == index + LORE_PAGE_SIZE

\* A call of process_n_representative_patches(count), up to its first request
\* (or to its return, when the loop is not entered).
process_n_representative_patches(count) ==
    /\ pc = "idle"
    /\ n' = count
    /\ IF loop_continues(representative_patches_ids, count)
       THEN pc' = "fetching" /\ ret' = Pending
       ELSE pc' = "idle" /\ ret' = Ok
    /\ UNCHANGED <<session, history, splitter, utilities>>

\* The loop body with the cursor advanced only when the page brought a new
\* patch.
request_patch_feed_ok_skip_empty(patch_feed) ==
    /\ pc = "fetching"
    /\ Len(fetched) < MaxFetches
    /\ LET folded == fold(processed_patches_map, representative_patches_ids, patch_feed)
       IN  /\ processed_patches_map' = folded.map
           /\ representative_patches_ids' = folded.reps
           /\ IF loop_continues(folded.reps, n)
              THEN pc' = "fetching" /\ ret' = Pending
              ELSE pc' = "idle" /\ ret' = Ok
    /\ min_index' = IF process_patches(processed_patches_map, patch_feed).ids = <<>>
                    THEN min_index
                    ELSE advance_cursor(min_index)
    /\ fetched' = Append(fetched, min_index)
    /\ last_request' = [offset |-> min_index, outcome |-> "ok"]
    /\ UNCHANGED <<n, splitter, utilities>>

\* The loop body with an end-of-archive exit: a page that brings no new patch
\* ends the call.
request_patch_feed_ok_until_empty(patch_feed) ==
    /\ pc = "fetching"
    /\ Len(fetched) < MaxFetches
    /\ LET folded == fold(processed_patches_map, representative_patches_ids, patch_feed)
       IN  /\ processed_patches_map' = folded.map
           /\ representative_patches_ids' = folded.reps
           /\ IF loop_continues(folded.reps, n) /\ folded.ids # <<>>
              THEN pc' = "fetching" /\ ret' = Pending
              ELSE pc' = "idle" /\ ret' = Ok
    /\ min_index' = advance_cursor(min_index)
    /\ fetched' = Append(fetched, min_index)
    /\ last_request' = [offset |-> min_index, outcome |-> "ok"]
    /\ UNCHANGED <<n, splitter, utilities>>

\* request_patch_feed answers with a page: the rest of the loop body and the
\* next evaluation of the guard.
request_patch_feed_ok(patch_feed) ==
    /\ pc = "fetching"
    /\ Len(fetched) < MaxFetches
    /\ LET folded == fold(processed_patches_map, representative_patches_ids, patch_feed)
       IN  /\ processed_patches_map' = folded.map
           /\ representative_patches_ids' = folded.reps
           /\ IF loop_continues(folded.reps, n)
              THEN pc' = "fetching" /\ ret' = Pending
              ELSE pc' = "idle" /\ ret' = Ok
    /\ min_index' = advance_cursor(min_index)
    /\ fetched' = Append(fetched, min_index)
    /\ last_request' = [offset |-> min_index, outcome |-> "ok"]
    /\ UNCHANGED <<n, splitter, utilities>>

\* A failed request with the cursor advanced before the error is returned.
request_patch_feed_err_advancing ==
    /\ pc = "fetching"
    /\ pc' = "idle"
    /\ ret' = Err
    /\ last_request' = [offset |-> min_index, outcome |-> "err"]
    /\ min_index' = advance_cursor(min_index)
    /\ UNCHANGED <<processed_patches_map, representative_patches_ids, n, fetched, splitter, utilities>>

\* request_patch_feed fails: `?` returns the error.
request_patch_feed_err ==
    /\ pc = "fetching"
    /\ pc' = "idle"
    /\ ret' = Err
    /\ last_request' = [offset |-> min_index, outcome |-> "err"]
    /\ UNCHANGED <<session, n, fetched, splitter, utilities>>

\* request_patch_feed answers with a body that is no feed: from_str(..).unwrap()
\* panics.
from_str_panic ==
    /\ pc = "fetching"
    /\ pc' = "panicked"
    /\ last_request' = [offset |-> min_index, outcome |-> "malformed"]
    /\ UNCHANGED <<session, n, ret, fetched, splitter, utilities>>

\* A call of get_patch_feed_page.
get_patch_feed_page_call(page_size, page_number) ==
    /\ pc = "idle"
    /\ \E overflow_checks \in BOOLEAN :
         LET page == get_patch_feed_page(processed_patches_map, representative_patches_ids,
                                         page_size, page_number, overflow_checks)
         IN  ret' = Returned("get_patch_feed_page", <<page_size, page_number>>,
                             page.kind, page.val)
    /\ pc' = IF ret'.kind = "Panic" THEN "panicked" ELSE "idle"
    /\ UNCHANGED <<session, n, history, splitter, utilities>>

\* A call of get_processed_patch.
get_processed_patch(message_id) ==
    /\ pc = "idle"
    /\ ret' = IF contains_key(processed_patches_map, message_id)
              THEN Returned("get_processed_patch", <<message_id>>, "Some",
                            <<processed_patches_map[message_id]>>)
              ELSE Returned("get_processed_patch", <<message_id>>, "None", NoPage)
    /\ UNCHANGED <<session, pc, n, history, splitter, utilities>>

Next ==
    \/ \E count \in 0..MaxN : process_n_representative_patches(count)
    \/ \E patch_feed \in PatchFeeds : request_patch_feed_ok(patch_feed)
    \/ request_patch_feed_err
    \/ from_str_panic
    \/ \E page_size \in 1..MaxPageSize, page_number \in 1..MaxPageNumber :
          get_patch_feed_page_call(page_size, page_number)
    \/ \E message_id \in MessageIds : get_processed_patch(message_id)

Spec == Init /\ [][Next]_vars

\* The fetch loop alone.
NextFetch ==
    \/ \E count \in 0..MaxN : process_n_representative_patches(count)
    \/ \E patch_feed \in PatchFeeds : request_patch_feed_ok(patch_feed)
    \/ request_patch_feed_err
    \/ from_str_panic

SpecFetch == Init /\ [][NextFetch]_vars

\* ------------------------------------------------------ the mailbox splitter

\* A line is the sequence of its pieces; a piece is a marker the code looks
\* for, a blank, or other text.
SUBJECT == "Subject: "
DASHES == "--"
SEPARATOR == "From git@z Thu Jan  1 00:00:00 1970"
BLANK == " "

subject_line(subject) == <<SUBJECT, subject>>
signature_line == <<DASHES, BLANK>>        \* "-- ", as git writes it
dashes_line == <<DASHES>>
separator_line == <<SEPARATOR>>
text_line == <<"text">>
empty_line == <<>>

\* str::starts_with
starts_with(line, prefix) == Len(line) > 0 /\ line[1] = prefix

\* str::trim_end
RECURSIVE trim_end(_)
trim_end(line) ==
    IF Len(line) > 0 /\ line[Len(line)] = BLANK
    THEN trim_end(SubSeq(line, 1, Len(line) - 1))
    ELSE line

\* The subjects of the messages of a file, in order.
Subjects == <<"a", "b", "c", "d", "e", "f">>

\* What may stand between a message's Subject line and its end.
BodyLines == {text_line}
\* The lines that end a message, and the line after a `--` line.
SignatureLines == {signature_line}
FollowingLines == {text_line, empty_line, dashes_line, separator_line}

Bodies == {<<>>} \cup {<<line>> : line \in BodyLines}
Endings ==
    {<<signature, following>> : signature \in SignatureLines, following \in FollowingLines}
        \cup {<<separator_line>>}

\* The i-th message of a file: its Subject line, its body and its end; only
\* the last message may end with the file.
MessagesAt(i, is_last) ==
    {<<subject_line(Subjects[i])>> \o body \o ending :
        body \in Bodies, ending \in Endings \cup (IF is_last THEN {<<>>} ELSE {})}

\* The files of k messages, from the i-th message on.
RECURSIVE archives_from(_, _)
archives_from(i, k) ==
    IF i > k THEN {<<>>}
    ELSE {<<message>> \o rest : message \in MessagesAt(i, i = k),
                                rest \in archives_from(i + 1, k)}

Archives(k) == archives_from(1, k)

RECURSIVE concat(_)
concat(seqs) == IF seqs = <<>> THEN <<>> ELSE Head(seqs) \o concat(Tail(seqs))

\* What split_patchset may have put into patches before the .mbx file is read:
\* nothing, or the message of the .cover file.
CoverTexts == {<<>>, <<<<subject_line("cover"), text_line>>>>}

\* extract_patches is entered on a file written from `archive`.
open_archive(archive, before) ==
    /\ messages = archive
    /\ mbox = concat(archive)
    /\ lines_read = 0
    /\ current_patch = <<>>
    /\ is_reading_patch = FALSE
    /\ is_last_line = FALSE
    /\ patches = before
    /\ extracted = FALSE

\* One turn of the for loop, with the separator branch taken also while
\* reading is off.
read_line_separator_anywhere ==
    /\ ~extracted
    /\ lines_read < Len(mbox)
    /\ LET line == mbox[lines_read + 1]
           subject == starts_with(line, SUBJECT)
           dashes == ~subject /\ is_reading_patch /\ trim_end(line) = <<DASHES>>
           last == ~subject /\ ~dashes /\ is_last_line
           separator == /\ ~subject /\ ~dashes /\ ~last
                        /\ trim_end(line) = <<SEPARATOR>>
           reading == IF subject THEN TRUE
                      ELSE IF last \/ separator THEN FALSE
                      ELSE is_reading_patch
           buffer == IF last \/ separator THEN <<>> ELSE current_patch
       IN  /\ patches' = IF last THEN Append(patches, Append(current_patch, line))
                         ELSE IF separator THEN Append(patches, current_patch)
                         ELSE patches
           /\ is_reading_patch' = reading
           /\ is_last_line' = IF dashes THEN TRUE ELSE IF last THEN FALSE ELSE is_last_line
           /\ current_patch' = IF reading THEN Append(buffer, line) ELSE buffer
    /\ lines_read' = lines_read + 1
    /\ UNCHANGED <<engine, utilities, mbox, extracted, messages>>

\* One turn of the for loop.
read_line ==
    /\ ~extracted
    /\ lines_read < Len(mbox)
    /\ LET line == mbox[lines_read + 1]
           subject == starts_with(line, SUBJECT)
           dashes == ~subject /\ is_reading_patch /\ trim_end(line) = <<DASHES>>
           last == ~subject /\ ~dashes /\ is_last_line
           separator == /\ ~subject /\ ~dashes /\ ~last
                        /\ is_reading_patch /\ trim_end(line) = <<SEPARATOR>>
           reading == IF subject THEN TRUE
                      ELSE IF last \/ separator THEN FALSE
                      ELSE is_reading_patch
           buffer == IF last \/ separator THEN <<>> ELSE current_patch
       IN  /\ patches' = IF last THEN Append(patches, Append(current_patch, line))
                         ELSE IF separator THEN Append(patches, current_patch)
                         ELSE patches
           /\ is_reading_patch' = reading
           /\ is_last_line' = IF dashes THEN TRUE ELSE IF last THEN FALSE ELSE is_last_line
           /\ current_patch' = IF reading THEN Append(buffer, line) ELSE buffer
    /\ lines_read' = lines_read + 1
    /\ UNCHANGED <<engine, utilities, mbox, extracted, messages>>

\* The end of the file: what is left in the buffer is the last message.
end_of_input ==
    /\ ~extracted
    /\ lines_read = Len(mbox)
    /\ patches' = IF current_patch # <<>> THEN Append(patches, current_patch) ELSE patches
    /\ extracted' = TRUE
    /\ UNCHANGED <<engine, utilities, mbox, lines_read, current_patch, is_reading_patch, is_last_line,
                   messages>>

InitArchive ==
    /\ new
    /\ idle
    /\ \E k \in 1..MaxMessages : \E archive \in Archives(k), before \in CoverTexts :
          open_archive(archive, before)

NextArchive == read_line \/ end_of_input

\* extract_patches on the files of up to MaxMessages messages.
SpecArchive == InitArchive /\ [][NextArchive]_vars

\* The lines of a file of any content.
MboxLines == {subject_line("a"), subject_line("b"), signature_line, dashes_line,
              separator_line, text_line, empty_line}
Mboxes == UNION {[1..k -> MboxLines] : k \in 0..MaxLines}

\* extract_patches is entered on a file that was written by anyone.
open_mbox(file_lines, before) ==
    /\ messages = <<>>
    /\ mbox = file_lines
    /\ lines_read = 0
    /\ current_patch = <<>>
    /\ is_reading_patch = FALSE
    /\ is_last_line = FALSE
    /\ patches = before
    /\ extracted = FALSE

InitMbox ==
    /\ new
    /\ idle
    /\ \E file_lines \in Mboxes, before \in CoverTexts : open_mbox(file_lines, before)

\* extract_patches on every file of up to MaxLines lines.
SpecMbox == InitMbox /\ [][NextArchive]_vars

\* ----------------------------------------------------------------- split_cover

\* A string is the sequence of its characters.
NL == "\n"
Chars == {"A", "-", NL}
Texts == UNION {[1..k -> Chars] : k \in 0..MaxTextLen}
MARKER == <<NL, "-", "-", "-", NL>>

FoundNone == [kind |-> "None"]
FoundSome(index) == [kind |-> "Some", index |-> index]

\* str::find: the byte index, from 0, of the first match.
find(text, pattern) ==
    LET starts == {i \in 0..(Len(text) - Len(pattern)) :
                      SubSeq(text, i + 1, i + Len(pattern)) = pattern}
    IN  IF starts = {} THEN FoundNone
        ELSE FoundSome(CHOOSE i \in starts : \A j \in starts : i <= j)

\* &text[from..], bytes counted from 0
slice_from(text, from) == SubSeq(text, from + 1, Len(text))
\* &text[..to]
slice_to(text, to) == SubSeq(text, 1, to)

split_cover(patch_text) ==
    LET found == find(patch_text, MARKER)
    IN  IF found.kind = "Some"
        THEN [kind |-> "split",
              cover |-> slice_to(patch_text, found.index + 1),
              diff |-> slice_from(patch_text, found.index + 5)]
        ELSE [kind |-> "split", cover |-> patch_text, diff |-> <<>>]

split_cover_call ==
    /\ input.op = "split_cover"
    /\ output = NotReturned
    /\ output' = split_cover(input.patch)
    /\ UNCHANGED <<engine, splitter, input, lists, disk>>

InitCover ==
    /\ new /\ no_mbox /\ no_lists /\ no_disk
    /\ \E patch_text \in Texts : input = [op |-> "split_cover", patch |-> patch_text]
    /\ output = NotReturned

\* split_cover on the texts of up to MaxTextLen characters.
SpecCover == InitCover /\ [][split_cover_call]_vars

\* ------------------------------------------- generate_patch_reply_template

\* Lines are sequences of pieces, as in extract_patches.
FROM == "From: "
DATE == "Date: "
MESSAGE_ID == "Message-Id: "
RE == "Re: "
QUOTE == "> "

from_line == <<FROM, "x">>
date_line == <<DATE, "today">>
message_id_line_of(message_id) == <<MESSAGE_ID, "<", message_id, ">">>
message_id_line == message_id_line_of("id")
blank_line == <<BLANK>>
\* "Subject: Subject: foo"
subject_in_subject_line == <<SUBJECT, SUBJECT, "foo">>

ReplyLines == {subject_line("foo"), subject_in_subject_line, from_line, date_line,
               message_id_line, text_line, empty_line, blank_line}
PatchContents == UNION {[1..k -> ReplyLines] : k \in 0..MaxReplyLines}

\* str::replace: every occurrence of the piece `from` becomes the pieces `to`.
RECURSIVE replace(_, _, _)
replace(line, from, to) ==
    IF line = <<>> THEN <<>>
    ELSE (IF Head(line) = from THEN to ELSE <<Head(line)>>) \o replace(Tail(line), from, to)

\* str::trim().is_empty()
RECURSIVE is_blank(_)
is_blank(line) == line = <<>> \/ (Head(line) = BLANK /\ is_blank(Tail(line)))

\* The first for loop, from line i: the template is the sequence of the lines
\* pushed, each with its newline; `next` is where the iterator stands after it.
RECURSIVE process_headers(_, _, _)
process_headers(patch_lines, i, reply_template) ==
    IF i > Len(patch_lines) THEN [reply_template |-> reply_template, next |-> i]
    ELSE LET line == patch_lines[i]
         IN  IF starts_with(line, SUBJECT)
             THEN process_headers(patch_lines, i + 1,
                      Append(reply_template, replace(line, SUBJECT, <<SUBJECT, RE>>)))
             ELSE IF starts_with(line, FROM) \/ starts_with(line, DATE)
                        \/ starts_with(line, MESSAGE_ID)
             THEN process_headers(patch_lines, i + 1, reply_template)
             ELSE IF ~is_blank(line)
             THEN process_headers(patch_lines, i + 1, Append(reply_template, line))
             ELSE IF reply_template # <<>>
             THEN [reply_template |-> Append(reply_template, <<>>), next |-> i + 1]
             ELSE process_headers(patch_lines, i + 1, reply_template)

\* The second for loop.
RECURSIVE quote_remaining(_, _, _)
quote_remaining(patch_lines, i, reply_template) ==
    IF i > Len(patch_lines) THEN reply_template
    ELSE quote_remaining(patch_lines, i + 1,
                         Append(reply_template, <<QUOTE>> \o patch_lines[i]))

generate_patch_reply_template(patch_contents) ==
    LET headers == process_headers(patch_contents, 1, <<>>)
    IN  quote_remaining(patch_contents, headers.next, headers.reply_template)

generate_patch_reply_template_call ==
    /\ input.op = "generate_patch_reply_template"
    /\ output = NotReturned
    /\ output' = [kind |-> "template",
                  reply_template |-> generate_patch_reply_template(input.patch_contents)]
    /\ UNCHANGED <<engine, splitter, input, lists, disk>>

InitTemplate ==
    /\ new /\ no_mbox /\ no_lists /\ no_disk
    /\ \E patch_contents \in PatchContents :
          input = [op |-> "generate_patch_reply_template", patch_contents |-> patch_contents]
    /\ output = NotReturned

\* generate_patch_reply_template on the texts of up to MaxReplyLines lines.
SpecTemplate == InitTemplate /\ [][generate_patch_reply_template_call]_vars

\* ---------------------------------- prepare_reply_patchset_with_reviewed_by

\* The HTML of a patch is the sequence of its whitespace-separated words; a
\* word is a long option as a whole or holds none.
ANCHOR_START == "git-send-email(1):"
ANCHOR_END == "/path/to/YOUR_REPLY"
LongOptions == {"--to=a", "--cc=b"}
HtmlWords == {ANCHOR_START, ANCHOR_END, "git"} \cup LongOptions
Htmls == UNION {[1..k -> HtmlWords] : k \in 0..MaxHtmlLen}

\* The baseline option string is a sequence of words and blanks, no two words
\* touching.
OptionWords == {"-q", "--dry-run"}
OptionStrings ==
    {options \in UNION {[1..k -> OptionWords \cup {BLANK}] : k \in 0..MaxOptionsLen} :
        \A i \in 1..(Len(options) - 1) : options[i] = BLANK \/ options[i + 1] = BLANK}

\* str::split_whitespace
split_whitespace(options) == SelectSeq(options, LAMBDA piece : piece # BLANK)

\* RE_FULL_GIT_COMMAND, capture 1: the words after the first ANCHOR_START up
\* to the first ANCHOR_END after it.
first_index(words, word, after) ==
    LET found == {i \in (after + 1)..Len(words) : words[i] = word}
    IN  IF found = {} THEN 0 ELSE CHOOSE i \in found : \A j \in found : i <= j

full_git_command(patch_html) ==
    LET start == first_index(patch_html, ANCHOR_START, 0)
        end == IF start = 0 THEN 0 ELSE first_index(patch_html, ANCHOR_END, start)
    IN  IF end = 0 THEN FoundNone
        ELSE [kind |-> "Some", words |-> SubSeq(patch_html, start + 1, end - 1)]

\* RE_LONG_OPTIONS.find_iter
long_options(words) == SelectSeq(words, LAMBDA word : word \in LongOptions)

\* A Command: the program and its arguments.
Command(program, args) == [program |-> program, args |-> args]
arg(command, argument) == [command EXCEPT !.args = Append(@, argument)]

\* extract_git_reply_command with the long options put before the baseline.
extract_git_reply_command_options_first(patch_html, git_send_email_options) ==
    LET capture == full_git_command(patch_html)
    IN  Command("git", <<"send-email">>
                           \o (IF capture.kind = "Some" THEN long_options(capture.words)
                               ELSE <<>>)
                           \o split_whitespace(git_send_email_options))

extract_git_reply_command(patch_html, git_send_email_options) ==
    LET capture == full_git_command(patch_html)
    IN  Command("git", <<"send-email">>
                           \o split_whitespace(git_send_email_options)
                           \o (IF capture.kind = "Some" THEN long_options(capture.words)
                               ELSE <<>>))

extract_git_reply_command_call ==
    /\ input.op = "extract_git_reply_command"
    /\ output = NotReturned
    /\ output' = [kind |-> "command",
                  command |-> extract_git_reply_command(input.patch_html,
                                                        input.git_send_email_options)]
    /\ UNCHANGED <<engine, splitter, input, lists, disk>>

\* RE_MESSAGE_ID.captures(patch): the id of the first Message-Id line.
message_id_of(patch_lines) ==
    LET found == {i \in 1..Len(patch_lines) :
                     /\ starts_with(patch_lines[i], MESSAGE_ID)
                     /\ Len(patch_lines[i]) >= 4
                     /\ patch_lines[i][2] = "<"
                     /\ patch_lines[i][4] = ">"}
    IN  IF found = {} THEN FoundNone
        ELSE [kind |-> "Some",
              message_id |-> patch_lines[CHOOSE i \in found : \A j \in found : i <= j][3]]

reply_path_of(tmp_dir, message_id) == <<tmp_dir, message_id, "-reply.mbx">>
reviewed_by(git_signature) == <<empty_line, <<"Reviewed-by: ", git_signature>>>>

\* What request_patch_html may give for one patch.
RequestFailed == [kind |-> "Err"]
html_without_anchor == <<"git", "--to=a">>
html_with_anchor == <<"--cc=b", ANCHOR_START, "git", "--to=a", "--cc=b", ANCHOR_END, "--to=a">>
Responses == {RequestFailed,
              [kind |-> "Ok", body |-> html_without_anchor],
              [kind |-> "Ok", body |-> html_with_anchor]}

\* The for loop from patch i on; `written` is what fs::write has put on disk.
RECURSIVE reply_from(_, _, _, _)
reply_from(call, i, git_reply_commands, written) ==
    IF i > Len(call.patches)
    THEN [kind |-> "Ok", commands |-> git_reply_commands, written |-> written]
    ELSE IF i > Len(call.patches_to_reply)
    THEN [kind |-> "Panic", commands |-> <<>>, written |-> written]
    ELSE IF ~call.patches_to_reply[i]
    THEN reply_from(call, i + 1, git_reply_commands, written)
    ELSE LET capture == message_id_of(call.patches[i])
         IN  IF capture.kind = "None" \/ ~call.writable
             THEN [kind |-> "Panic", commands |-> <<>>, written |-> written]
             ELSE LET reply_path == reply_path_of(call.tmp_dir, capture.message_id)
                      reply == generate_patch_reply_template(call.patches[i])
                                   \o reviewed_by(call.git_signature)
                      now_written == Append(written, [path |-> reply_path, contents |-> reply])
                      response == call.responses[i]
                  IN  IF response.kind = "Err"
                      THEN [kind |-> "Err", commands |-> <<>>, written |-> now_written]
                      ELSE reply_from(call, i + 1,
                               Append(git_reply_commands,
                                      arg(extract_git_reply_command(
                                              response.body, call.git_send_email_options),
                                          reply_path)),
                               now_written)

prepare_reply_patchset_with_reviewed_by(call) == reply_from(call, 1, <<>>, <<>>)

prepare_reply_patchset_with_reviewed_by_call ==
    /\ input.op = "prepare_reply_patchset_with_reviewed_by"
    /\ output = NotReturned
    /\ output' = prepare_reply_patchset_with_reviewed_by(input)
    /\ UNCHANGED <<engine, splitter, input, lists, disk>>

\* The patches of a patchset: with a Message-Id line or without.
patch_with_id(message_id) ==
    <<subject_line("foo"), message_id_line_of(message_id), empty_line, text_line>>
patch_without_id == <<subject_line("foo"), empty_line, text_line>>
ReplyPatches == {patch_with_id("p1"), patch_with_id("p2"), patch_without_id}

InitReply ==
    /\ new /\ no_mbox /\ no_lists /\ no_disk
    /\ output = NotReturned
    /\ \/ \E patch_html \in Htmls, options \in OptionStrings :
             input = [op |-> "extract_git_reply_command", patch_html |-> patch_html,
                      git_send_email_options |-> options]
       \/ \E k \in 0..MaxPatches, flags \in 0..MaxPatches :
             \E reply_patches \in [1..k -> ReplyPatches],
                patches_to_reply \in [1..flags -> BOOLEAN],
                responses \in [1..k -> Responses],
                options \in {<<>>, <<"-q", BLANK, BLANK, "--dry-run">>},
                writable \in BOOLEAN :
                  input = [op |-> "prepare_reply_patchset_with_reviewed_by",
                           tmp_dir |-> "tmp", target_list |-> "list",
                           patches |-> reply_patches, patches_to_reply |-> patches_to_reply,
                           git_signature |-> "me", git_send_email_options |-> options,
                           responses |-> responses, writable |-> writable]

NextReply ==
    \/ extract_git_reply_command_call
    \/ prepare_reply_patchset_with_reviewed_by_call

\* The reply builder on patchsets of up to MaxPatches patches.
SpecReply == InitReply /\ [][NextReply]_vars

\* ---------------------------------------------------- fetch_available_lists

\* A directory page is what the three regular expressions find in it: how
\* many <pre> blocks, and the names and the descriptions captured in the third.
ListNames == {"a", "all", "b"}
ListDescriptions == <<"w", "x", "y", "z">>
PRE_BLOCKS == 3

\* Sequences without repetition.
NamesOn(k) == {names \in [1..k -> ListNames] : \A i, j \in 1..k : names[i] = names[j] => i = j}

DirectoryPages ==
    {[pre_blocks |-> PRE_BLOCKS, names |-> names,
      descriptions |-> SubSeq(ListDescriptions, 1, d)] :
        names \in UNION {NamesOn(k) : k \in 0..MaxPageEntries}, d \in 1..MaxPageEntries}
\* A page with fewer <pre> blocks than pre_blocks[2] needs.
ShortPages == {[pre_blocks |-> PRE_BLOCKS - 1, names |-> <<>>, descriptions |-> <<>>]}

MailingList(name, description) == [name |-> name, description |-> description]

\* The order of the names.
name_rank(name) == CASE name = "a" -> 1 [] name = "all" -> 2 [] name = "b" -> 3

\* Iterator::zip
zip(left, right) ==
    [i \in 1..(IF Len(left) <= Len(right) THEN Len(left) ELSE Len(right)) |->
        <<left[i], right[i]>>]

\* The last for loop of process_available_lists, which keeps `all`.
RECURSIVE push_pairs_with_all(_)
push_pairs_with_all(pairs) ==
    IF pairs = <<>> THEN <<>>
    ELSE <<MailingList(Head(pairs)[1], Head(pairs)[2])>> \o push_pairs_with_all(Tail(pairs))

\* The last for loop of process_available_lists.
RECURSIVE push_pairs(_)
push_pairs(pairs) ==
    IF pairs = <<>> THEN <<>>
    ELSE (IF Head(pairs)[1] = "all" THEN <<>>
          ELSE <<MailingList(Head(pairs)[1], Head(pairs)[2])>>) \o push_pairs(Tail(pairs))

process_available_lists(body) == push_pairs(zip(body.names, body.descriptions))

\* Vec::sort on MailingList: stable, by name.
RECURSIVE sort_insert(_, _)
sort_insert(sorted, list) ==
    IF sorted = <<>> THEN <<list>>
    ELSE IF name_rank(list.name) < name_rank(Head(sorted).name)
    THEN <<list>> \o sorted
    ELSE <<Head(sorted)>> \o sort_insert(Tail(sorted), list)

RECURSIVE sort(_)
sort(unsorted) ==
    IF unsorted = <<>> THEN <<>>
    ELSE sort_insert(sort(SubSeq(unsorted, 1, Len(unsorted) - 1)), unsorted[Len(unsorted)])

fetch_available_lists ==
    /\ lists_ret = "idle"
    /\ lists_ret' = "fetching"
    /\ UNCHANGED <<engine, splitter, functions, disk, available_lists, lists_min_index, served>>

\* request_available_lists returns a page: one turn of the loop.
request_available_lists_ok(body) ==
    /\ lists_ret = "fetching"
    /\ Len(served) < MaxListRequests
    /\ served' = Append(served, [offset |-> lists_min_index, outcome |-> "ok", body |-> body])
    /\ LET tmp_available_lists == process_available_lists(body)
       IN  IF tmp_available_lists = <<>>
           THEN /\ available_lists' = sort(available_lists)
                /\ lists_ret' = "Ok"
                /\ UNCHANGED lists_min_index
           ELSE /\ available_lists' = available_lists \o tmp_available_lists
                /\ lists_min_index' = advance_cursor(lists_min_index)
                /\ UNCHANGED lists_ret
    /\ UNCHANGED <<engine, splitter, functions, disk>>

\* pre_blocks[2] is out of bounds.
process_available_lists_panic(body) ==
    /\ lists_ret = "fetching"
    /\ Len(served) < MaxListRequests
    /\ served' = Append(served, [offset |-> lists_min_index, outcome |-> "ok", body |-> body])
    /\ lists_ret' = "panicked"
    /\ UNCHANGED <<engine, splitter, functions, disk, available_lists, lists_min_index>>

\* request_available_lists fails: `?` returns the error, the vector is dropped.
request_available_lists_err ==
    /\ lists_ret = "fetching"
    /\ Len(served) < MaxListRequests
    /\ served' = Append(served, [offset |-> lists_min_index, outcome |-> "err",
                                 body |-> [pre_blocks |-> 0, names |-> <<>>,
                                           descriptions |-> <<>>]])
    /\ available_lists' = <<>>
    /\ lists_ret' = "Err"
    /\ UNCHANGED <<engine, splitter, functions, disk, lists_min_index>>

NextLists ==
    \/ fetch_available_lists
    \/ \E body \in DirectoryPages : request_available_lists_ok(body)
    \/ \E body \in ShortPages : process_available_lists_panic(body)
    \/ request_available_lists_err

\* fetch_available_lists against every directory of up to MaxListRequests pages.
SpecLists == Init /\ [][NextLists]_vars

\* ------------------------------------------------------------ the snapshots

\* A file name is the sequence of its parts; a file is what `directory` maps
\* a name to, and `files` holds its content, a sequence of chunks, also
\* after its name is gone.
filepath == <<"snapshot.json">>
tmp_filename_in_place(path) == path
\* format!("{}.tmp", filepath)
tmp_filename(path) == Append(path, ".tmp")

Savers == {"s1", "s2"}
chunk(owner, k) == <<owner, k>>
HOLE == chunk("hole", 0)
\* The JSON of a snapshot, as the chunks written for it.
snapshot(owner) == [k \in 1..MaxChunks |-> chunk(owner, k)]
NoFile == <<chunk("no file", 0)>>

exists(dir, name) == name \in DOMAIN dir
content_at(dir, contents, name) == IF exists(dir, name) THEN contents[dir[name]] ELSE NoFile

\* write(2) of one chunk at the offset of the descriptor; a write past the
\* end leaves a hole.
RECURSIVE write_at(_, _, _)
write_at(content, offset, data) ==
    IF offset < Len(content) THEN [content EXCEPT ![offset + 1] = data]
    ELSE IF offset = Len(content) THEN Append(content, data)
    ELSE write_at(Append(content, HOLE), offset, data)

\* The disks a save may start on: with or without a snapshot at filepath,
\* with or without a temporary file left by a save that failed.
stale_tmp == <<chunk("stale", 1)>>
stale_tmp_filename == Append(filepath, ".tmp")
Disks ==
    {[directory |-> <<>>, files |-> <<>>],
     [directory |-> (filepath :> 1), files |-> <<snapshot("old")>>],
     [directory |-> (stale_tmp_filename :> 1), files |-> <<stale_tmp>>],
     [directory |-> (filepath :> 1) @@ (stale_tmp_filename :> 2),
      files |-> <<snapshot("old"), stale_tmp>>]}

NotOpen == 0
NotLoaded == [kind |-> "none"]

\* The save calls of `running` have been entered on the disk `start`; nothing is loaded.
saving(running, start) ==
    /\ directory = start.directory
    /\ files = start.files
    /\ savers = [w \in running |->
                    [pc |-> "create_dir_all", fd |-> NotOpen, offset |-> 0,
                     before |-> content_at(start.directory, start.files, filepath)]]
    /\ reader = [fd |-> NotOpen, offset |-> 0, buffer |-> <<>>, loaded |-> NotLoaded]

\* fs::create_dir_all(parent)
create_dir_all(w) ==
    /\ savers[w].pc = "create_dir_all"
    /\ savers' = [savers EXCEPT ![w].pc = "create"]
    /\ UNCHANGED <<engine, splitter, functions, lists, directory, files, reader>>

\* File::create(&tmp_filename): open for writing, create or truncate.
File_create(w) ==
    /\ savers[w].pc = "create"
    /\ LET name == tmp_filename(filepath)
       IN  IF exists(directory, name)
           THEN /\ files' = [files EXCEPT ![directory[name]] = <<>>]
                /\ savers' = [savers EXCEPT ![w].pc = "write", ![w].fd = directory[name],
                                            ![w].offset = 0]
                /\ UNCHANGED directory
           ELSE /\ files' = Append(files, <<>>)
                /\ directory' = (name :> (Len(files) + 1)) @@ directory
                /\ savers' = [savers EXCEPT ![w].pc = "write", ![w].fd = Len(files) + 1,
                                            ![w].offset = 0]
    /\ UNCHANGED <<engine, splitter, functions, lists, reader>>

\* serde_json::to_writer: one write; after the last one the file is closed.
to_writer(w) ==
    /\ savers[w].pc = "write"
    /\ LET k == savers[w].offset + 1
       IN  /\ files' = [files EXCEPT ![savers[w].fd] = write_at(@, savers[w].offset, chunk(w, k))]
           /\ savers' = [savers EXCEPT ![w].offset = k,
                                       ![w].pc = IF k = MaxChunks THEN "rename" ELSE "write"]
    /\ UNCHANGED <<engine, splitter, functions, lists, directory, reader>>

\* fs::rename(tmp_filename, filepath), and the return: Ok, or the error of
\* a rename whose source is gone.
rename(w) ==
    /\ savers[w].pc = "rename"
    /\ LET name == tmp_filename(filepath)
       IN  IF exists(directory, name)
           THEN /\ directory' = [other \in (DOMAIN directory \ {name}) \cup {filepath} |->
                                    IF other = filepath THEN directory[name]
                                    ELSE directory[other]]
                /\ savers' = [savers EXCEPT ![w].pc = "Ok"]
           ELSE /\ savers' = [savers EXCEPT ![w].pc = "Err"]
                /\ UNCHANGED directory
    /\ UNCHANGED <<engine, splitter, functions, lists, files, reader>>

\* The step the call is at fails, and `?` returns its error.
save_fails(w) ==
    /\ savers[w].pc \in {"create_dir_all", "create", "write", "rename"}
    /\ savers' = [savers EXCEPT ![w].pc = "Err"]
    /\ UNCHANGED <<engine, splitter, functions, lists, directory, files, reader>>

\* load_*: File::open(filepath)
load_open ==
    /\ reader.fd = NotOpen
    /\ exists(directory, filepath)
    /\ reader' = [reader EXCEPT !.fd = directory[filepath], !.offset = 0, !.buffer = <<>>]
    /\ UNCHANGED <<engine, splitter, functions, lists, directory, files, savers>>

\* serde_json::from_reader: one read, or the end of the file.
load_read ==
    /\ reader.fd # NotOpen
    /\ reader.offset < Len(files[reader.fd])
    /\ reader' = [reader EXCEPT !.offset = @ + 1,
                                !.buffer = Append(@, files[reader.fd][reader.offset + 1])]
    /\ UNCHANGED <<engine, splitter, functions, lists, directory, files, savers>>

load_end_of_file ==
    /\ reader.fd # NotOpen
    /\ reader.offset >= Len(files[reader.fd])
    /\ reader' = [reader EXCEPT !.fd = NotOpen, !.offset = 0, !.buffer = <<>>,
                                !.loaded = [kind |-> "read", content |-> reader.buffer]]
    /\ UNCHANGED <<engine, splitter, functions, lists, directory, files, savers>>

InitSave ==
    /\ new /\ no_mbox /\ no_call /\ no_lists
    /\ \E start \in Disks : saving({"s1"}, start)

NextSave ==
    \/ \E w \in DOMAIN savers : create_dir_all(w)
    \/ \E w \in DOMAIN savers : File_create(w)
    \/ \E w \in DOMAIN savers : to_writer(w)
    \/ \E w \in DOMAIN savers : rename(w)
    \/ \E w \in DOMAIN savers : save_fails(w)
    \/ load_open
    \/ load_read
    \/ load_end_of_file

\* One save and a concurrent load.
SpecSave == InitSave /\ [][NextSave]_vars

InitSaves ==
    /\ new /\ no_mbox /\ no_call /\ no_lists
    /\ \E start \in Disks : saving(Savers, start)

\* No step fails for a reason outside the two calls.
NextSaves ==
    \/ \E w \in DOMAIN savers : create_dir_all(w)
    \/ \E w \in DOMAIN savers : File_create(w)
    \/ \E w \in DOMAIN savers : to_writer(w)
    \/ \E w \in DOMAIN savers : rename(w)
    \/ load_open
    \/ load_read
    \/ load_end_of_file

\* Two sessions saving to the same filepath, and a concurrent load.
SpecSaves == InitSaves /\ [][NextSaves]_vars

\* ------------------------------------------------------------- the claims

is_prefix(s, t) == Len(s) <= Len(t) /\ SubSeq(t, 1, Len(s)) = s

occurrences(seq, x) == Cardinality({i \in 1..Len(seq) : seq[i] = x})

known == DOMAIN processed_patches_map

\* cover is an ingested cover letter and patch an ingested patch of its series.
in_series_of(cover, patch) ==
    /\ processed_patches_map[cover].number_in_series = 0
    /\ processed_patches_map[patch].number_in_series >= 1
    /\ processed_patches_map[patch].in_reply_to = cover
    /\ processed_patches_map[patch].version = processed_patches_map[cover].version

\* C1: of every ingested series exactly one message is a representative: the
\* cover letter when it was ingested (and then none of its patches), otherwise
\* patch 1.
C1_OneRepresentativePerSeries ==
    /\ \A cover \in known, patch \in known :
          in_series_of(cover, patch) =>
             /\ occurrences(representative_patches_ids, cover) = 1
             /\ occurrences(representative_patches_ids, patch) = 0
    /\ \A patch \in known :
          (/\ processed_patches_map[patch].number_in_series = 1
           /\ processed_patches_map[patch].in_reply_to \notin known) =>
             occurrences(representative_patches_ids, patch) = 1

\* C2: folding a page a second time inserts no id and leaves the map and the
\* representative list as the first fold left them, for every page (an entry
\* repeated within the page included) and every state of the session.
C2_IdempotentIngestion ==
    \A patch_feed \in PatchFeeds :
        LET first == fold(processed_patches_map, representative_patches_ids, patch_feed)
            second == fold(first.map, first.reps, patch_feed)
        IN  /\ second.ids = <<>>
            /\ second.map = first.map
            /\ second.reps = first.reps

\* One page brought both messages and made both representatives: a second
\* fold of that page finds both ids known.
C2_Witness ==
    /\ Cardinality(known) = 2
    /\ Len(representative_patches_ids) = 2
    /\ Len(fetched) = 1

\* The window [(page_number-1)*page_size, min(page_number*page_size, L)) of the
\* representative list, as patches.
window(page_size, page_number) ==
    LET lower == (page_number - 1) * page_size
        upper == IF page_number * page_size < Len(representative_patches_ids)
                 THEN page_number * page_size
                 ELSE Len(representative_patches_ids)
    IN  [i \in 1..(upper - lower) |->
            processed_patches_map[representative_patches_ids[lower + i]]]

\* C3: get_patch_feed_page returns the window of the representative list when
\* the window starts inside the list, and None exactly when it starts at or
\* beyond its end (stated here for a session that holds a representative; the
\* session that holds none is the case of C4).
C3_PageIsTheWindow ==
    (ret.op = "get_patch_feed_page" /\ Len(representative_patches_ids) > 0) =>
        LET page_size == ret.args[1]
            page_number == ret.args[2]
        IN  IF (page_number - 1) * page_size >= Len(representative_patches_ids)
            THEN ret.kind = "None"
            ELSE ret.kind = "Some" /\ ret.val = window(page_size, page_number)

\* C4: a page whose window starts at or beyond the end of the representative
\* list is answered with None, never with a panic, in every state of the
\* session, the fresh one included.
C4_OutOfRangeIsAbsent ==
    (/\ ret.op = "get_patch_feed_page"
     /\ (ret.args[2] - 1) * ret.args[1] >= Len(representative_patches_ids)) =>
        ret.kind = "None"

\* C5: a page is requested only while the representative count is below n; the
\* call returns Ok only with at least n representatives, returns as soon as a
\* page brings the count to n, and a call made with the count already at n or
\* above returns Ok at once, with no request and the session as it was.
C5_FetchOnlyBelowN ==
    /\ [](/\ pc = "fetching" => Len(representative_patches_ids) < n
          /\ ret = Ok => Len(representative_patches_ids) >= n)
    /\ [][/\ (pc = "fetching" /\ fetched' # fetched /\ Len(representative_patches_ids') >= n)
               => (pc' = "idle" /\ ret' = Ok)
          /\ (/\ pc = "idle"
              /\ ret'.op = "process_n_representative_patches"
              /\ Len(representative_patches_ids) >= n')
               => (pc' = "idle" /\ ret' = Ok /\ UNCHANGED <<session, history>>)]_vars

\* A call returned Ok after fetching, and a later call found the count
\* already sufficient.
C5_Witness ==
    /\ ret = Ok
    /\ n = 1
    /\ Len(representative_patches_ids) = 2
    /\ Len(fetched) = 2

\* C6: a failed request ends the call at once with the error, leaves the map,
\* the representative list and the cursor as they were just before it, and the
\* request that follows a failed one asks for the same offset.
C6_TransportErrorAborts ==
    /\ [][(pc = "fetching" /\ ret'.kind = "Err") =>
             /\ pc' = "idle"
             /\ ret' = Err
             /\ UNCHANGED <<session, fetched>>
             /\ last_request' = [offset |-> min_index, outcome |-> "err"]]_vars
    /\ [][(last_request.outcome = "err" /\ last_request' # last_request) =>
             last_request'.offset = last_request.offset]_vars

\* A request failed in a call that had ingested a page before.
C6_Witness ==
    /\ ret = Err
    /\ n = 2
    /\ Len(fetched) = 1
    /\ Len(representative_patches_ids) = 1
    /\ last_request = [offset |-> LORE_PAGE_SIZE, outcome |-> "err"]

\* C7: no step of the session removes a key of the map, changes the patch
\* stored under a key or changes the representative list other than by
\* appending to it.
C7_SessionOnlyGrows ==
    [][/\ known \subseteq DOMAIN processed_patches_map'
       /\ \A key \in known : processed_patches_map'[key] = processed_patches_map[key]
       /\ is_prefix(representative_patches_ids, representative_patches_ids')]_vars

\* Three pages were folded into a session that knows both messages: at least
\* one page brought an id that was already known.
C7_Witness ==
    /\ Cardinality(known) = 2
    /\ Len(representative_patches_ids) = 1
    /\ Len(fetched) = 3

\* C8: the cursor is 200 times the number of pages fetched, the pages were
\* fetched at the offsets 0, 200, 400, ... in this order, and every request
\* asked for the offset the cursor held.
C8_CursorCountsPages ==
    /\ min_index = LORE_PAGE_SIZE * Len(fetched)
    /\ \A i \in 1..Len(fetched) : fetched[i] = LORE_PAGE_SIZE * (i - 1)
    /\ last_request.outcome = "ok" => last_request.offset = fetched[Len(fetched)]
    /\ last_request.outcome \in {"err", "malformed"} => last_request.offset = min_index

\* Two pages that brought no new patch were fetched.
C8_Witness ==
    /\ min_index = 2 * LORE_PAGE_SIZE
    /\ fetched = <<0, LORE_PAGE_SIZE>>
    /\ known = {}

\* C9: the call leaves the fetch loop only with a transport error or with at
\* least n representatives; a page that leaves the count below n, however
\* little it brought, is followed by a request at a larger offset.
C9_NoEndOfArchiveExit ==
    [][pc = "fetching" =>
          /\ pc' = "idle" =>
                \/ ret' = Err /\ last_request'.outcome = "err"
                \/ ret' = Ok /\ Len(representative_patches_ids') >= n
          /\ (fetched' # fetched /\ Len(representative_patches_ids') < n) =>
                (pc' = "fetching" /\ ret' = Pending /\ min_index' > min_index)]_vars

\* Pages brought nothing, the count is below n, and the call is still fetching.
C9_Witness ==
    /\ pc = "fetching"
    /\ Len(fetched) = 2
    /\ representative_patches_ids = <<>>
    /\ n > 0

\* The subjects of the Subject lines of a text.
subjects_in(text) == {text[j][2] : j \in {j \in 1..Len(text) : starts_with(text[j], SUBJECT)}}

\* C10: extract_patches appends one text per message of the file, in the
\* order of the file, the i-th with the Subject line of the i-th message and
\* of no other.
C10_OneTextPerMessage ==
    extracted =>
        \E before \in CoverTexts :
            /\ Len(patches) = Len(before) + Len(messages)
            /\ SubSeq(patches, 1, Len(before)) = before
            /\ \A i \in 1..Len(messages) :
                  subjects_in(patches[Len(before) + i]) = {Subjects[i]}

\* The start, from 1, of the first line of a text that is `---` and nothing
\* else; 0 when it has none.
marker_line(text) ==
    LET starts == {p \in 1..(Len(text) - 2) :
                      /\ SubSeq(text, p, p + 2) = <<"-", "-", "-">>
                      /\ (p = 1 \/ text[p - 1] = NL)
                      /\ (p + 2 = Len(text) \/ text[p + 3] = NL)}
    IN  IF starts = {} THEN 0 ELSE CHOOSE p \in starts : \A q \in starts : p <= q

\* The end of the line that starts at p with three characters: its newline
\* when it has one.
marker_end(text, p) == IF p + 3 <= Len(text) THEN p + 3 ELSE p + 2

\* C11: split_cover cuts after the first line that is solely `---`, wherever
\* it is: the cover ends with that line, the diff is the rest, and cover
\* followed by diff is the text; without such a line the cover is the text.
C11_CoverKeepsMarker ==
    (input.op = "split_cover" /\ output # NotReturned) =>
        LET text == input.patch
            p == marker_line(text)
        IN  /\ output.cover \o output.diff = text
            /\ IF p = 0 THEN output.cover = text /\ output.diff = <<>>
               ELSE /\ output.cover = slice_to(text, marker_end(text, p))
                    /\ output.diff = slice_from(text, marker_end(text, p))

\* What the header phase does with one line: the lines it emits for it.
is_dropped_header(line) ==
    starts_with(line, FROM) \/ starts_with(line, DATE) \/ starts_with(line, MESSAGE_ID)

kept_header(line) ==
    IF starts_with(line, SUBJECT) THEN <<<<SUBJECT, RE>> \o Tail(line)>>
    ELSE IF is_dropped_header(line) \/ is_blank(line) THEN <<>>
    ELSE <<line>>

RECURSIVE kept_headers(_)
kept_headers(patch_lines) ==
    IF patch_lines = <<>> THEN <<>>
    ELSE kept_header(Head(patch_lines)) \o kept_headers(Tail(patch_lines))

\* The line that ends the header phase: the first blank line with a kept line
\* before it; 0 when there is none.
header_end(patch_lines) ==
    LET ends == {i \in 1..Len(patch_lines) :
                    /\ is_blank(patch_lines[i])
                    /\ kept_headers(SubSeq(patch_lines, 1, i - 1)) # <<>>}
    IN  IF ends = {} THEN 0 ELSE CHOOSE i \in ends : \A j \in ends : i <= j

quoted(patch_lines) == [i \in 1..Len(patch_lines) |-> <<QUOTE>> \o patch_lines[i]]

\* C12: the template is the kept header lines (Subject lines with `Re: ` put
\* before the subject, From/Date/Message-Id and blank lines dropped, the
\* others verbatim), then, if a blank line follows a kept line, one blank line
\* and every later line once, quoted.
C12_TwoPhaseTemplate ==
    (input.op = "generate_patch_reply_template" /\ output # NotReturned) =>
        LET patch_lines == input.patch_contents
            end == header_end(patch_lines)
        IN  output.reply_template =
                IF end = 0 THEN kept_headers(patch_lines)
                ELSE kept_headers(SubSeq(patch_lines, 1, end - 1)) \o <<empty_line>>
                         \o quoted(SubSeq(patch_lines, end + 1, Len(patch_lines)))

\* The arguments the claim gives a command: send-email, the baseline words,
\* the long options of the anchor block, in that order.
reply_args(patch_html, options) ==
    LET block == full_git_command(patch_html)
    IN  <<"send-email">> \o split_whitespace(options)
            \o (IF block.kind = "Some" THEN long_options(block.words) ELSE <<>>)

\* The patches of a call whose flag is set, in patch order.
flagged(call) ==
    SelectSeq([i \in 1..Len(call.patches) |-> i], LAMBDA i : call.patches_to_reply[i])

\* C13: a command is `git send-email`, the baseline words, the long options
\* of the anchor block, and for prepare_reply_patchset_with_reviewed_by the
\* reply path last; a call that returns Ok returns one such command per
\* flagged patch, in patch order; an HTML without anchor block gives the
\* baseline-only command, and Err comes only from a failed request.
C13_ReplyCommandArguments ==
    /\ (input.op = "extract_git_reply_command" /\ output # NotReturned) =>
           output.command =
               Command("git", reply_args(input.patch_html, input.git_send_email_options))
    /\ (input.op = "prepare_reply_patchset_with_reviewed_by" /\ output # NotReturned) =>
           /\ output.kind = "Err" =>
                  \E i \in 1..Len(input.patches) :
                      /\ i <= Len(input.patches_to_reply)
                      /\ input.patches_to_reply[i]
                      /\ input.responses[i].kind = "Err"
           /\ output.kind = "Ok" =>
                  LET replied == flagged(input)
                  IN  /\ Len(output.commands) = Len(replied)
                      /\ \A j \in 1..Len(replied) :
                             LET i == replied[j]
                             IN  /\ input.responses[i].kind = "Ok"
                                 /\ output.commands[j] =
                                        Command("git",
                                            Append(reply_args(input.responses[i].body,
                                                              input.git_send_email_options),
                                                   reply_path_of(input.tmp_dir,
                                                       message_id_of(input.patches[i]).message_id)))

\* C13 witness: two patches replied to, one whose HTML has an anchor block
\* with long options and one whose HTML has none, after two baseline words.
C13_Witness ==
    /\ input.op = "prepare_reply_patchset_with_reviewed_by"
    /\ output # NotReturned
    /\ output.kind = "Ok"
    /\ Len(output.commands) = 2
    /\ output.commands[1].args =
           <<"send-email", "-q", "--dry-run", "--to=a", "--cc=b", reply_path_of("tmp", "p2")>>
    /\ output.commands[2].args =
           <<"send-email", "-q", "--dry-run", reply_path_of("tmp", "p1")>>

\* The entries the claim gives a directory page: the i-th name with the i-th
\* description, `all` left out.
entries_of(body) ==
    LET paired == IF Len(body.names) <= Len(body.descriptions)
                  THEN Len(body.names) ELSE Len(body.descriptions)
    IN  SelectSeq([i \in 1..paired |-> MailingList(body.names[i], body.descriptions[i])],
                  LAMBDA list : list.name # "all")

RECURSIVE entries_of_pages(_)
entries_of_pages(pages) ==
    IF pages = <<>> THEN <<>>
    ELSE entries_of(Head(pages).body) \o entries_of_pages(Tail(pages))

same_entries(left, right) ==
    /\ Len(left) = Len(right)
    /\ \A i \in 1..Len(left) : occurrences(left, left[i]) = occurrences(right, left[i])

sorted_by_name(all_lists) ==
    \A i \in 1..(Len(all_lists) - 1) :
        name_rank(all_lists[i].name) <= name_rank(all_lists[i + 1].name)

yields_none(request) == request.outcome = "ok" /\ entries_of(request.body) = <<>>
well_formed(request) == request.outcome = "err" \/ request.body.pre_blocks >= PRE_BLOCKS

\* C14: the requests go to offsets 0, 200, 400, ...; the call is still
\* running exactly while every page so far yielded a list; it returns Ok at
\* the first page that yields none, with the entries of the pages before it
\* sorted by name, and Err with no list at the first failed request.
C14_ListsUntilEmptyPage ==
    /\ \A i \in 1..Len(served) : served[i].offset = LORE_PAGE_SIZE * (i - 1)
    /\ \A i \in 1..(Len(served) - 1) :
           served[i].outcome = "ok" /\ ~yields_none(served[i])
    /\ lists_ret = "fetching" =>
           \A i \in 1..Len(served) : served[i].outcome = "ok" /\ ~yields_none(served[i])
    /\ lists_ret = "Ok" =>
           /\ served # <<>> /\ yields_none(served[Len(served)])
           /\ sorted_by_name(available_lists)
           /\ same_entries(available_lists,
                           entries_of_pages(SubSeq(served, 1, Len(served) - 1)))
    /\ lists_ret = "Err" =>
           /\ served # <<>> /\ served[Len(served)].outcome = "err"
           /\ available_lists = <<>>
    /\ (served # <<>> /\ well_formed(served[Len(served)])) =>
           /\ served[Len(served)].outcome = "err" => lists_ret = "Err"
           /\ yields_none(served[Len(served)]) => lists_ret = "Ok"

\* C14 witness: three pages, b on the first, a and `all` on the second, none
\* on the third; the call returned a before b.
C14_Witness ==
    /\ lists_ret = "Ok"
    /\ Len(served) = 3
    /\ served[1].body.names = <<"b">>
    /\ served[2].body.names = <<"all", "a">>
    /\ served[2].body.descriptions = <<"w", "x">>
    /\ available_lists = <<MailingList("a", "x"), MailingList("b", "w")>>

at_filepath == content_at(directory, files, filepath)
returned(w) == savers[w].pc \in {"Ok", "Err"}

\* C15: while one save runs, what is at filepath, and what a load reads from
\* it from open to end of file, is no file, the whole previous snapshot or
\* the whole new one; a save that returns an error has left filepath as it
\* was, and one that returns Ok has put the new snapshot there.
C15_SaveIsAtomic ==
    DOMAIN savers = {"s1"} =>
        /\ at_filepath \in {NoFile, snapshot("old"), snapshot("s1")}
        /\ reader.loaded.kind = "read" =>
               reader.loaded.content \in {snapshot("old"), snapshot("s1")}
        /\ reader.fd # NotOpen =>
               /\ files[reader.fd] \in {snapshot("old"), snapshot("s1")}
               /\ reader.buffer = SubSeq(files[reader.fd], 1, reader.offset)
        /\ savers["s1"].pc = "Err" => at_filepath = savers["s1"].before
        /\ savers["s1"].pc = "Ok" => at_filepath = snapshot("s1")

\* C15 witness: the save has returned Ok while a load that opened the
\* previous snapshot is half way through it.
C15_Witness ==
    /\ DOMAIN savers = {"s1"}
    /\ savers["s1"].pc = "Ok"
    /\ reader.fd # NotOpen
    /\ reader.fd # directory[filepath]
    /\ reader.buffer = <<chunk("old", 1)>>

\* C16: with two saves interleaved, filepath never holds a partial or mixed
\* snapshot, each rename leaves the snapshot of its own call at filepath, and
\* both calls return Ok.
C16_LastWriterWins ==
    /\ [](DOMAIN savers = Savers =>
              /\ at_filepath \in {NoFile, snapshot("old")} \cup {snapshot(w) : w \in Savers}
              /\ \A w \in Savers : returned(w) => savers[w].pc = "Ok")
    /\ [][DOMAIN savers = Savers =>
              \A w \in Savers :
                  (savers[w].pc = "rename" /\ returned(w)') =>
                      content_at(directory', files', filepath) = snapshot(w)]_vars

\* The patch has a reply-to id under which `map` holds a cover letter of the
\* same version.
has_cover_in(map, patch) ==
    /\ patch.in_reply_to # NoReply
    /\ patch.in_reply_to \in DOMAIN map
    /\ map[patch.in_reply_to].number_in_series = 0
    /\ map[patch.in_reply_to].version = patch.version

\* The ids a page adds to `reps`.
appended_by(map, reps, patch_feed) ==
    LET after == fold(map, reps, patch_feed).reps
    IN  {after[i] : i \in (Len(reps) + 1)..Len(after)}

distinct_ids(patch_feed) ==
    \A i, j \in 1..Len(patch_feed) :
        patch_feed[i].message_id = patch_feed[j].message_id => i = j

reversed(patch_feed) == [i \in 1..Len(patch_feed) |-> patch_feed[Len(patch_feed) + 1 - i]]

\* C17: a page appends, once each, exactly those of the ids it inserts whose
\* patch is numbered 0, or numbered 1 without a same-version cover letter
\* under its reply-to id in the map as it is after the whole page; and which
\* ids a page of distinct messages appends does not depend on their order.
C17_SelectionAfterWholePage ==
    /\ [][fetched' # fetched =>
              LET inserted == DOMAIN processed_patches_map' \ DOMAIN processed_patches_map
                  chosen == {id \in inserted :
                                LET patch == processed_patches_map'[id]
                                IN  \/ patch.number_in_series = 0
                                    \/ /\ patch.number_in_series = 1
                                       /\ ~has_cover_in(processed_patches_map', patch)}
              IN  /\ is_prefix(representative_patches_ids, representative_patches_ids')
                  /\ Len(representative_patches_ids') =
                         Len(representative_patches_ids) + Cardinality(chosen)
                  /\ \A id \in chosen :
                         occurrences(representative_patches_ids', id) =
                             occurrences(representative_patches_ids, id) + 1]_vars
    /\ [](\A patch_feed \in PatchFeeds :
              distinct_ids(patch_feed) =>
                  appended_by(processed_patches_map, representative_patches_ids, patch_feed) =
                      appended_by(processed_patches_map, representative_patches_ids,
                                  reversed(patch_feed)))

\* C17 witness: one page brought patch 1 and its same-version cover letter,
\* and only the cover letter is a representative.
C17_Witness ==
    /\ Len(fetched) = 1
    /\ known = {"m0", "m1"}
    /\ processed_patches_map["m0"].number_in_series = 0
    /\ processed_patches_map["m1"].number_in_series = 1
    /\ processed_patches_map["m1"].version = processed_patches_map["m0"].version
    /\ representative_patches_ids = <<"m0">>

\* C19: the representative list holds no id twice, only keys of the map, and
\* only patches numbered 0 or 1; so get_patch_feed_page returns None only
\* from its range test, never from the lookup of an id of the list.
C19_RepresentativesAreKnown ==
    /\ \A i, j \in 1..Len(representative_patches_ids) :
           representative_patches_ids[i] = representative_patches_ids[j] => i = j
    /\ \A i \in 1..Len(representative_patches_ids) :
           /\ representative_patches_ids[i] \in known
           /\ processed_patches_map[representative_patches_ids[i]].number_in_series \in {0, 1}
    /\ \A page_size \in 1..MaxPageSize, page_number \in 1..MaxPageNumber,
             overflow_checks \in BOOLEAN :
           get_patch_feed_page(processed_patches_map, representative_patches_ids,
                               page_size, page_number, overflow_checks) = PageNone =>
               /\ Len(representative_patches_ids) >= 1
               /\ Len(representative_patches_ids) - 1 <= page_size * (page_number - 1)
    /\ (ret.op = "get_patch_feed_page" /\ ret.kind = "None") =>
           Len(representative_patches_ids) - 1 <= ret.args[1] * (ret.args[2] - 1)

\* C19 witness: get_patch_feed_page has looked two representatives up and
\* returned both.
C19_Witness ==
    /\ ret.op = "get_patch_feed_page"
    /\ ret.kind = "Some"
    /\ Len(ret.val) = 2
    /\ Len(representative_patches_ids) = 2

\* A line is being read in this step.
reads_line == lines_read' = lines_read + 1
line_read == mbox[lines_read + 1]

\* C18: the line read after a `--` line (the pending flag is set) is made the
\* last line of the message, whatever it is: the buffer with that line is
\* flushed and reading is off; and a message flushed at the separator line
\* holds no separator line.
C18_LineAfterSignatureEndsMessage ==
    /\ [][(reads_line /\ is_last_line) =>
              /\ patches' = Append(patches, Append(current_patch, line_read))
              /\ current_patch' = <<>>
              /\ ~is_reading_patch'
              /\ ~is_last_line']_vars
    /\ [][(reads_line /\ ~is_last_line /\ is_reading_patch
              /\ trim_end(line_read) = <<SEPARATOR>>) =>
              /\ patches' = Append(patches, current_patch)
              /\ \A i \in 1..Len(current_patch) : trim_end(current_patch[i]) # <<SEPARATOR>>
              /\ ~is_reading_patch']_vars

has_subject(file_lines) == \E i \in 1..Len(file_lines) : starts_with(file_lines[i], SUBJECT)

\* C20: the buffer is empty while reading is off and begins with a Subject
\* line while it is on, the pending flag is set only while reading is on;
\* every message emitted is non-empty and begins with a Subject line; a line
\* read while reading is off that is no Subject line goes nowhere; a file
\* without Subject line emits nothing; the message open at the end of the
\* input is emitted, once, as the last.
C20_BufferFollowsReading ==
    /\ [](/\ ~is_reading_patch => current_patch = <<>>
          /\ is_reading_patch =>
                 current_patch # <<>> /\ starts_with(current_patch[1], SUBJECT)
          /\ is_last_line => is_reading_patch
          /\ (extracted /\ ~has_subject(mbox)) => patches \in CoverTexts)
    /\ [][/\ patches' # patches =>
                 \E i \in 1..Len(mbox) : \E j \in i..Len(mbox) :
                     /\ patches' = Append(patches, SubSeq(mbox, i, j))
                     /\ starts_with(mbox[i], SUBJECT)
          /\ (reads_line /\ ~is_reading_patch /\ ~starts_with(line_read, SUBJECT)) =>
                 UNCHANGED <<patches, current_patch, is_reading_patch, is_last_line>>
          /\ extracted' # extracted =>
                 /\ patches' = IF is_reading_patch THEN Append(patches, current_patch)
                               ELSE patches
                 /\ is_reading_patch =>
                        current_patch = SubSeq(mbox, Len(mbox) - Len(current_patch) + 1,
                                               Len(mbox))]_vars

\* C20 witness: the first line, read while reading is off, is in no message,
\* and the message open at the end of the input is the one emitted.
C20_Witness ==
    /\ extracted
    /\ mbox = <<text_line, subject_line("a"), text_line>>
    /\ patches = <<<<subject_line("a"), text_line>>>>

====
